---- MODULE Spec2Model ----
(***************************************************************************)
(* Seat-inventory reservation of the airport API service: the order        *)
(* endpoints of OrderViewSet (create, replace, delete, list, retrieve)     *)
(* and the serializers behind them, run as concurrent requests against a   *)
(* relational store with row locks, a unique index on                      *)
(* (row, seat, flight) and READ COMMITTED statement snapshots.             *)
(***************************************************************************)
EXTENDS Integers, Sequences, FiniteSets, TLC

\* ---------------------------------------------------------------- bounds
NumFlights == 1
Rows == 2
SeatsInRow == 2
MaxOrders == 2
MoreFlights == 1
NumGates == 2

\* The flights the concurrent requests book on
Flights == 1..NumFlights
\* Every stored flight: the flights beyond Flights fly a shorter airplane
AllFlights == 1..(NumFlights + MoreFlights)
\* A flight id no Flight row has
MissingFlight == NumFlights + MoreFlights + 1
OrderIds == 1..MaxOrders
Procs == {"p1", "p2"}
Users == {"alice", "bob", "admin"}
\* the users who book in this model; the administrator reads and edits
Customers == {"alice", "bob"}
\* the one user whose concurrent requests Spec follows
Bookers == {"alice"}
\* Flight prices, and the price a client may write into its ticket entries
\* (0: the entries carry no price)
Prices == {100, 250}
SentPrices == {0, 7}

\* FlightStatus.STATUS_CHOICES, and the names get_flight_queryset lets through
StatusNames == {"SCHEDULED", "BOARDING", "IN_FLIGHT", "LANDED", "DELAYED",
                "CANCELLED", "DIVERTED"}
AvailableStatuses == {"SCHEDULED", "BOARDING", "DELAYED"}

\* is_staff of the requesting user (views.py: user.is_staff)
IsStaff(u) == u = "admin"

\* Airplane geometry of a flight: flight.airplane.rows, .seats_in_row
AirplaneRows(f) == IF f \in Flights THEN Rows ELSE Rows - 1
AirplaneSeatsInRow(f) == SeatsInRow

\* Seats of the airplane the requests of this model name
SeatA == <<1, 1>>
SeatB == <<1, SeatsInRow>>
SeatC == <<Rows, SeatsInRow>>
\* The batches of the concurrent requests: one seat, two seats of a row,
\* two seats on a diagonal (the row and seat lists of the lock query then
\* also match SeatB), and one seat twice.
SeatBatches == {<<SeatA>>, <<SeatB>>, <<SeatA, SeatB>>, <<SeatA, SeatC>>,
                <<SeatA, SeatA>>}
\* Batches with an item one step beyond an edge of the airplane, alone,
\* before and after a seat of the airplane
OutsideBatches == {<<<<0, 1>>>>, <<<<Rows + 1, 1>>>>, <<<<1, 0>>>>,
                   <<<<1, SeatsInRow + 1>>>>, <<<<Rows + 1, SeatsInRow + 1>>>>,
                   <<<<0, 1>>, SeatA>>, <<SeatA, <<Rows + 1, 1>>>>,
                   <<SeatC, <<Rows, SeatsInRow + 1>>>>,
                   <<<<0, 0>>>>, <<<<Rows + 1, 1>>, <<1, SeatsInRow + 1>>>>,
                   <<<<Rows + 1, 1>>, <<Rows + 1, 1>>>>}
\* Batches that repeat a seat of the airplane at a later position
RepeatBatches == {<<SeatB, SeatA, SeatB>>, <<SeatA, SeatB, SeatB, SeatA>>}
\* The batches of the sequential requests: the empty batch and the last
\* seat alone as well
Batches == SeatBatches \cup OutsideBatches \cup RepeatBatches \cup {<<>>, <<SeatC>>}

NoOrder == [user |-> "none", flight |-> 0, total_price |-> 0]
NoReq == [kind |-> "none", user |-> "none", flight |-> 0, order |-> 0,
          owner |-> "none", batch |-> <<>>, price |-> 0, sent |-> 0]
NoWrite == [op |-> "none", id |-> 0, rec |-> NoOrder]
\* The error payloads are keyed by field name, never by a batch position
NoIndex == -1
\* MinValueValidator(1) of Ticket.row and Ticket.seat
MinValue == 1
\* A response: its kind, and what its error detail names: the key and the
\* values of its message, the seats it lists, the batch position it is keyed
\* by, and the batch entries <<0-based position, field>> its messages are about
Resp(code) == [code |-> code, field |-> "none", row |-> 0, seat |-> 0, seats |-> {},
               index |-> NoIndex, about |-> {}]
NoResp == Resp("none")
\* The terminals: T1 is created international, T2 domestic
Terminals == {"T1", "T2"}
GateIds == 1..NumGates
\* Gate.GATE_TYPES
GATE_TYPES == {"DOMESTIC", "INTERNATIONAL", "MIXED"}
\* A key the request data does not hold
Absent == "absent"
\* Request data of a gate write: a number, a terminal pk (T9 names no
\* terminal), a gate type (CARGO is no choice); is_active plays no part in
\* validation and is left out
GateData == [number : {"A1", Absent},
             terminal : Terminals \cup {"T9", Absent},
             gate_type : GATE_TYPES \cup {"CARGO", Absent}]
\* The response of a gate request: its kind, the gate it is about and the
\* keys of its error detail
GateResp(code, id, fields) == [code |-> code, id |-> id, fields |-> fields]
NoGate == [number |-> "none", terminal |-> "none", gate_type |-> "none"]
NoView == [stage |-> "none", flight |-> 0, tickets_available |-> 0, taken_seats |-> {}]

VARIABLES
    flightPrice,   \* Flight.price of every flight
    orders,        \* committed Order rows: id -> row, NoOrder when absent
    nextOrderId,   \* the Order primary-key sequence
    tickets,       \* committed (live) Ticket rows
    pc,            \* where each request is in its handler
    req,           \* the request being served and what its view loaded
    resp,          \* the response of the last finished request
    listed,        \* the order ids the last list/retrieve response showed
    snap,          \* rows a blocked DELETE / SELECT FOR UPDATE found at its start
    locks,         \* Ticket rows a transaction holds row locks on
    del,           \* Ticket rows a transaction deleted, not yet committed
    ins,           \* Ticket rows a transaction inserted, not yet committed
    ordw,          \* the Order row a transaction wrote, not yet committed
    flightStatus,  \* Flight.status.name of every flight
    departed,      \* whether Flight.departure_time of a flight is before now
    flightView,    \* the flight detail response being built or last returned
    is_international, \* Terminal.is_international of every terminal
    gates,         \* Gate rows: id -> row, NoGate when absent
    gateResp       \* the response of the last gate request

vars == <<flightPrice, orders, nextOrderId, tickets, pc, req, resp, listed,
          snap, locks, del, ins, ordw, flightStatus, departed, flightView,
          is_international, gates, gateResp>>
dbvars == <<flightPrice, orders, nextOrderId, tickets>>
txvars == <<snap, locks, del, ins, ordw>>
\* What the order handlers never write
gatevars == <<is_international, gates, gateResp>>
refvars == <<flightStatus, departed, flightView, gatevars>>

\* ------------------------------------------------------------ pure helpers

\* Variant of validate_row without the upper end of the range
validate_row_NoUpperEnd(row, num_rows) == 1 <= row

\* Variant of validate_row that turns the last row away
validate_row_Strict(row, num_rows) == 1 <= row /\ row < num_rows

\* Ticket.validate_row / Ticket.validate_seat: TRUE when the value passes
validate_row(row, num_rows) == 1 <= row /\ row <= num_rows
validate_seat(seat, num_seats) == 1 <= seat /\ seat <= num_seats

\* TicketSerializer.validate for one submitted ticket of a flight
TicketValid(rs, f) ==
    /\ validate_row(rs[1], AirplaneRows(f))
    /\ validate_seat(rs[2], AirplaneSeatsInRow(f))

\* CustomTicketField.to_internal_value: every item goes through the child
\* serializer; the first failing item raises.
BatchValid(batch, f) == \A i \in DOMAIN batch : TicketValid(batch[i], f)

\* Variant of the repeat check that compares an item with its predecessor only
HasDuplicate_AdjacentOnly(batch) ==
    \E i \in DOMAIN batch : i > 1 /\ batch[i - 1] = batch[i]

\* OrderSerializer.validate: a seat_key seen before raises
HasDuplicate(batch) ==
    \E i \in DOMAIN batch : \E j \in 1..(i - 1) : batch[j] = batch[i]

\* The fields of one submitted ticket the child serializer's error names:
\* the field validators (MinValueValidator) report every field below the
\* minimum; only when all fields pass does validate() run, and there
\* validate_row raises before validate_seat is called.
ReportedFields(rs, f) ==
    IF rs[1] < MinValue \/ rs[2] < MinValue
    THEN {fld \in {"row", "seat"} : \/ (fld = "row" /\ rs[1] < MinValue)
                                   \/ (fld = "seat" /\ rs[2] < MinValue)}
    ELSE IF ~validate_row(rs[1], AirplaneRows(f)) THEN {"row"}
    ELSE IF ~validate_seat(rs[2], AirplaneSeatsInRow(f)) THEN {"seat"}
    ELSE {}

\* The error of the first item the child serializer rejects: is_valid(
\* raise_exception=True) ends the loop, the later items are not looked at.
OutOfRangeError(batch, f) ==
    LET i == CHOOSE k \in DOMAIN batch :
                 /\ ~TicketValid(batch[k], f)
                 /\ \A j \in 1..(k - 1) : TicketValid(batch[j], f)
        fields == ReportedFields(batch[i], f)
    IN [Resp("OutOfRangeSeat") EXCEPT
          !.field = IF "row" \in fields THEN "row" ELSE "seat",
          !.row = IF "row" \in fields THEN batch[i][1] ELSE 0,
          !.seat = IF "seat" \in fields THEN batch[i][2] ELSE 0,
          !.about = {<<i - 1, fld>> : fld \in fields}]

\* "Duplication of space in one order: Row r, Seat s" for the first repeat
DuplicateError(batch) ==
    LET i == CHOOSE k \in DOMAIN batch :
                 /\ \E j \in 1..(k - 1) : batch[j] = batch[k]
                 /\ \A m \in 1..(k - 1) : ~\E j \in 1..(m - 1) : batch[j] = batch[m]
    IN [Resp("DuplicateSeatInRequest") EXCEPT !.field = "tickets",
                                              !.row = batch[i][1], !.seat = batch[i][2],
                                              !.about = {<<i - 1, "tickets">>}]

\* create lists the conflicting seats; replace answers with one fixed message
SeatConflictError(kind, conflicting) ==
    [Resp("SeatConflict") EXCEPT !.field = "tickets",
                                 !.seats = IF kind = "create" THEN conflicting ELSE {}]

\* requested_seats = {(row, seat) for ticket in tickets_data}
RequestedSeats(batch) == {batch[i] : i \in DOMAIN batch}

\* filter(flight=flight, row__in=[rows of requested], seat__in=[seats of requested])
SeatFilter(f, requested, rows) ==
    {t \in rows : /\ t.flight = f
                  /\ t.row \in {rs[1] : rs \in requested}
                  /\ t.seat \in {rs[2] : rs \in requested}}

\* values_list("row", "seat")
RowSeat(rows) == {<<t.row, t.seat>> : t \in rows}

\* Variant of the conflict test that counts every row the probe returned
ConflictingSeats_AnyTaken(requested, taken) == taken

\* conflicting_seats = requested_seats.intersection(taken_seats)
ConflictingSeats(requested, taken) == requested \cap taken

\* Variant of the new tickets that books them on the first flight
NewTickets_FirstFlight(o, f, batch, price) ==
    {[order |-> o, flight |-> 1, row |-> batch[i][1], seat |-> batch[i][2],
      price |-> price,
      copy |-> Cardinality({j \in 1..i : batch[j] = batch[i]})] : i \in DOMAIN batch}

\* One Ticket(...) per submitted item; copy numbers repeated items of a batch
NewTickets(o, f, batch, price) ==
    {[order |-> o, flight |-> f, row |-> batch[i][1], seat |-> batch[i][2],
      price |-> price,
      copy |-> Cardinality({j \in 1..i : batch[j] = batch[i]})] : i \in DOMAIN batch}

\* Variant of the ticket price that takes the price the client sent
TicketPrice_FromClient(sent, flight_price) == IF sent # 0 THEN sent ELSE flight_price

\* The price of a new ticket: TicketSerializer.price is read-only, validate
\* sets attrs["price"] = flight.price, and the handlers write flight.price.
TicketPrice(sent, flight_price) == flight_price

\* total_price = flight.price * len(tickets_data)
TotalPrice(price, batch) == price * Len(batch)

\* UniqueConstraint(fields=["row", "seat", "flight"])
UniqueKey(t) == <<t.row, t.seat, t.flight>>

\* Variant of get_queryset without the filter on the requesting user
VisibleOrders_Unfiltered(u) == {o \in OrderIds : orders[o] # NoOrder}

\* Variant of get_queryset that filters on the requesting user for staff too
VisibleOrders_OwnOnly(u) == {o \in OrderIds : orders[o] # NoOrder /\ orders[o].user = u}

\* OrderViewSet.get_queryset: the orders a user can address
VisibleOrders(u) ==
    {o \in OrderIds : orders[o] # NoOrder /\ (IsStaff(u) \/ orders[o].user = u)}

TicketsOf(o) == {t \in tickets : t.order = o}

\* --------------------------------------------------- the store's transactions

\* What a statement of transaction p sees of the Ticket table: the committed
\* rows without its own deletions, and its own insertions.
VisibleTickets(p) == (tickets \ del[p]) \cup ins[p]

\* A row lock held by another transaction on one of these rows
LockedByOther(p, rows) == \E q \in Procs \ {p} : rows \cap locks[q] # {}

\* The Order table after applying the transaction's Order write
OrdersAfter(p) ==
    IF ordw[p].op = "none" THEN orders
    ELSE IF ordw[p].op = "delete" THEN [orders EXCEPT ![ordw[p].id] = NoOrder]
    ELSE [orders EXCEPT ![ordw[p].id] = ordw[p].rec]

\* Variant of the rollback that keeps the Order row the handler wrote
RolledBack_KeepsOrder(p) == [tickets |-> tickets, orders |-> OrdersAfter(p)]

\* Variant of the rollback that keeps the handler's ticket deletions
RolledBack_KeepsDeletes(p) == [tickets |-> tickets \ del[p], orders |-> orders]

\* transaction.atomic() left by an exception: nothing the transaction wrote
\* reaches the committed tables.
RolledBack(p) == [tickets |-> tickets, orders |-> orders]

\* transaction.atomic() left normally: the writes become visible together.
Committed(p) == [tickets |-> (tickets \ del[p]) \cup ins[p], orders |-> OrdersAfter(p)]

\* Ticket.order is a foreign key checked when the transaction commits
ForeignKeysHold(db) == \A t \in db.tickets : db.orders[t.order] # NoOrder

\* What stays of a request once it is answered
Finished(r) ==
    [NoReq EXCEPT !.kind = r.kind, !.user = r.user, !.order = r.order, !.sent = r.sent,
                  !.flight = r.flight, !.batch = r.batch]

ClearTx(p) ==
    /\ locks' = [locks EXCEPT ![p] = {}]
    /\ del' = [del EXCEPT ![p] = {}]
    /\ ins' = [ins EXCEPT ![p] = {}]
    /\ ordw' = [ordw EXCEPT ![p] = NoWrite]

\* The request ends with an error raised inside its transaction: rollback.
Abort(p, r) ==
    /\ pc' = [pc EXCEPT ![p] = "done"]
    /\ resp' = [resp EXCEPT ![p] = r]
    /\ tickets' = RolledBack(p).tickets
    /\ orders' = RolledBack(p).orders
    /\ snap' = [snap EXCEPT ![p] = {}]
    /\ req' = [req EXCEPT ![p] = Finished(@)]
    /\ ClearTx(p)
    /\ UNCHANGED <<flightPrice, nextOrderId, listed, refvars>>

\* The request is answered before any transaction is opened.
Reply(p, r, request, shown) ==
    /\ pc' = [pc EXCEPT ![p] = "done"]
    /\ resp' = [resp EXCEPT ![p] = r]
    /\ req' = [req EXCEPT ![p] = request]
    /\ listed' = [listed EXCEPT ![p] = shown]
    /\ UNCHANGED <<dbvars, txvars, refvars>>

\* The request passed its view and field validation and opens its transaction.
Enter(p, request, at) ==
    /\ pc' = [pc EXCEPT ![p] = at]
    /\ req' = [req EXCEPT ![p] = request]
    /\ resp' = [resp EXCEPT ![p] = NoResp]
    /\ listed' = [listed EXCEPT ![p] = {}]
    /\ UNCHANGED <<dbvars, txvars, refvars>>

Free(p) == pc[p] \in {"idle", "done"}

\* Every flight open for booking, no flight detail asked for, no gate stored
RefInit ==
    /\ flightStatus = [f \in AllFlights |-> "SCHEDULED"]
    /\ departed = [f \in AllFlights |-> FALSE]
    /\ flightView = NoView
    /\ is_international = [t \in Terminals |-> t = "T1"]
    /\ gates = [g \in GateIds |-> NoGate]
    /\ gateResp = GateResp("none", 0, {})

\* Creates that will still draw an id from the Order sequence
InFlightCreates ==
    Cardinality({q \in Procs : pc[q] \in {"probe", "probe_wait", "insert"}
                               /\ req[q].kind = "create"})

Init ==
    /\ flightPrice \in [AllFlights -> {100}]
    /\ orders = [o \in OrderIds |-> NoOrder]
    /\ nextOrderId = 1
    /\ tickets = {}
    /\ pc = [p \in Procs |-> "idle"]
    /\ req = [p \in Procs |-> NoReq]
    /\ resp = [p \in Procs |-> NoResp]
    /\ listed = [p \in Procs |-> {}]
    /\ snap = [p \in Procs |-> {}]
    /\ locks = [p \in Procs |-> {}]
    /\ del = [p \in Procs |-> {}]
    /\ ins = [p \in Procs |-> {}]
    /\ ordw = [p \in Procs |-> NoWrite]
    /\ RefInit

\* ------------------------------------------------------------ order create

\* POST /orders/: OrderViewSet.get_serializer_context loads the flight, the
\* tickets field validates every item, OrderSerializer.validate looks for
\* a repeated seat; a valid request goes on to OrderSerializer.create.
CreateRequest(u, f, batch, sent) ==
    [kind |-> "create", user |-> u, flight |-> f, order |-> 0, owner |-> u,
     batch |-> batch, price |-> IF f \in AllFlights THEN flightPrice[f] ELSE 0,
     sent |-> sent]

\* Variant of the flight lookup that looks at the status only
get_flight_queryset_AnyTime == {f \in AllFlights : flightStatus[f] \in AvailableStatuses}

\* OrderViewSet.get_flight_queryset: the flights an order can be made on
get_flight_queryset ==
    {f \in AllFlights : flightStatus[f] \in AvailableStatuses /\ ~departed[f]}

\* The answer to a create whose flight id get_flight_queryset does not
\* hold: the context carries no flight. The flight field reports the id;
\* the tickets field runs the child serializer on the first item, whose
\* field validators raise a validation error for a value below the
\* minimum, and whose validate() otherwise raises a bare Exception that no
\* handler catches.
NoFlightError(batch) ==
    IF batch = <<>> THEN [Resp("InvalidFlight") EXCEPT !.field = "flight"]
    ELSE IF batch[1][1] < MinValue \/ batch[1][2] < MinValue
    THEN [Resp("InvalidFlight") EXCEPT
            !.field = "flight",
            !.about = {<<0, fld>> : fld \in
                         {x \in {"row", "seat"} : \/ (x = "row" /\ batch[1][1] < MinValue)
                                                  \/ (x = "seat" /\ batch[1][2] < MinValue)}}]
    ELSE Resp("UnhandledException")

SubmitCreate(p, u, f, batch, sent) ==
    /\ Free(p)
    /\ LET request == CreateRequest(u, f, batch, sent)
       IN IF f \notin get_flight_queryset
          THEN Reply(p, NoFlightError(batch), Finished(request), {})
          ELSE IF ~BatchValid(batch, f)
          THEN Reply(p, OutOfRangeError(batch, f), Finished(request), {})
          ELSE IF HasDuplicate(batch)
          THEN Reply(p, DuplicateError(batch), Finished(request), {})
          ELSE /\ nextOrderId + InFlightCreates <= MaxOrders
               /\ Enter(p, request, "probe")

\* A create whose ticket entries carry no price
BeginCreate(p, u, f, batch) == SubmitCreate(p, u, f, batch, 0)

\* The rows the SELECT ... FOR UPDATE of p matches at its start
ProbeRows(p) ==
    SeatFilter(req[p].flight, RequestedSeats(req[p].batch), VisibleTickets(p))

\* select_for_update() returned `found` (now locked by p); the handler
\* intersects with the requested seats and raises on a conflict.
Probed(p, found) ==
    IF ConflictingSeats(RequestedSeats(req[p].batch), RowSeat(found)) # {}
    THEN Abort(p, SeatConflictError(req[p].kind,
                  ConflictingSeats(RequestedSeats(req[p].batch), RowSeat(found))))
    ELSE /\ pc' = [pc EXCEPT ![p] = "insert"]
         /\ locks' = [locks EXCEPT ![p] = @ \cup found]
         /\ snap' = [snap EXCEPT ![p] = {}]
         /\ UNCHANGED <<req, resp, listed, dbvars, del, ins, ordw, refvars>>

\* The SELECT ... FOR UPDATE of create and of replace. A matching row locked
\* by another transaction makes the statement wait on its snapshot.
Probe(p) ==
    /\ pc[p] = "probe"
    /\ IF LockedByOther(p, ProbeRows(p))
       THEN /\ pc' = [pc EXCEPT ![p] = "probe_wait"]
            /\ snap' = [snap EXCEPT ![p] = ProbeRows(p)]
            /\ UNCHANGED <<req, resp, listed, dbvars, locks, del, ins, ordw, refvars>>
       ELSE Probed(p, ProbeRows(p))

\* The lock holders ended: rows they deleted are skipped, the rest is returned.
ProbeResume(p) ==
    /\ pc[p] = "probe_wait"
    /\ ~LockedByOther(p, snap[p])
    /\ Probed(p, snap[p])

\* Variant of the store without the unique index
UniqueViolation_Off(p, new) == FALSE

\* The unique index on (row, seat, flight) against rows no running
\* transaction is deleting, and inside the inserted rows themselves.
UniqueViolation(p, new) ==
    \/ \E t \in new : t.copy > 1
    \/ \E t \in VisibleTickets(p) \ UNION {del[q] : q \in Procs \ {p}} :
          UniqueKey(t) \in {UniqueKey(n) : n \in new}

\* Transactions whose uncommitted insert or delete of the same key the
\* unique index makes an INSERT wait for.
UniqueBlockers(p, new) ==
    {q \in Procs \ {p} : \E t \in ins[q] \cup del[q] :
                            UniqueKey(t) \in {UniqueKey(n) : n \in new}}

\* Transactions holding an uncommitted write of Order row o
OrderRowBlockers(p, o) == {q \in Procs \ {p} : ordw[q].op # "none" /\ ordw[q].id = o}

\* order = Order.objects.create(flight=..., user=..., total_price=...)
CreateOrder(p) ==
    /\ pc[p] = "insert"
    /\ req[p].kind = "create"
    /\ ordw' = [ordw EXCEPT ![p] =
                 [op |-> "insert", id |-> nextOrderId,
                  rec |-> [user |-> req[p].user, flight |-> req[p].flight,
                           total_price |-> TotalPrice(req[p].price, req[p].batch)]]]
    /\ nextOrderId' = nextOrderId + 1
    /\ req' = [req EXCEPT ![p].order = nextOrderId]
    /\ pc' = [pc EXCEPT ![p] = "bulk"]
    /\ UNCHANGED <<flightPrice, orders, tickets, resp, listed, snap, locks, del, ins, refvars>>

\* Ticket.objects.bulk_create(tickets_to_create) of create
BulkCreate(p) ==
    /\ pc[p] = "bulk"
    /\ LET new == NewTickets(req[p].order, req[p].flight, req[p].batch,
                            TicketPrice(req[p].sent, req[p].price))
       IN IF UniqueViolation(p, new) THEN Abort(p, Resp("IntegrityError"))
          ELSE /\ UniqueBlockers(p, new) = {}
               /\ ins' = [ins EXCEPT ![p] = @ \cup new]
               /\ pc' = [pc EXCEPT ![p] = "commit"]
               /\ UNCHANGED <<dbvars, req, resp, listed, snap, locks, del, ordw, refvars>>

\* The answer of a request whose transaction committed
Success(kind) ==
    IF kind = "create" THEN "Created" ELSE IF kind = "delete" THEN "Deleted" ELSE "OK"

\* Leaving transaction.atomic(): the deferred foreign-key check, then commit.
\* Statements of other transactions waiting on rows p deleted skip them.
Commit(p) ==
    /\ pc[p] = "commit"
    /\ IF ~ForeignKeysHold(Committed(p)) THEN Abort(p, Resp("IntegrityError"))
       ELSE /\ tickets' = Committed(p).tickets
            /\ orders' = Committed(p).orders
            /\ snap' = [q \in Procs |-> IF q = p THEN {} ELSE snap[q] \ del[p]]
            /\ pc' = [pc EXCEPT ![p] = "done"]
            /\ resp' = [resp EXCEPT ![p] = Resp(Success(req[p].kind))]
            /\ req' = [req EXCEPT ![p] = Finished(@)]
            /\ ClearTx(p)
            /\ UNCHANGED <<flightPrice, nextOrderId, listed, refvars>>

\* ----------------------------------------------------- order replace, delete

\* IsAdminOrOwner.has_object_permission
HasObjectPermission(u, o) == IsStaff(u) \/ orders[o].user = u

\* PUT/PATCH /orders/{id}/: get_object() through get_queryset (404 when not
\* visible), the object permission, then the tickets field validates every
\* item against the order's flight; OrderUpdateSerializer has no validate().
ReplaceRequest(u, o, batch, sent) ==
    [NoReq EXCEPT !.kind = "replace", !.user = u, !.order = o, !.sent = sent,
                  !.batch = batch, !.flight = orders[o].flight,
                  !.owner = orders[o].user, !.price = flightPrice[orders[o].flight]]

SubmitReplace(p, u, o, batch, sent) ==
    /\ Free(p)
    /\ LET miss == [NoReq EXCEPT !.kind = "replace", !.user = u, !.order = o,
                                 !.sent = sent]
           request == ReplaceRequest(u, o, batch, sent)
       IN IF o \notin VisibleOrders(u) THEN Reply(p, Resp("NotFound"), miss, {})
          ELSE IF ~HasObjectPermission(u, o) THEN Reply(p, Resp("Forbidden"), miss, {})
          ELSE IF ~BatchValid(batch, orders[o].flight)
               THEN Reply(p, OutOfRangeError(batch, orders[o].flight), Finished(request), {})
          ELSE Enter(p, request, "delete")

\* A replace whose ticket entries carry no price
BeginReplace(p, u, o, batch) == SubmitReplace(p, u, o, batch, 0)

\* DELETE /orders/{id}/: get_object(), then instance.delete()
BeginDelete(p, u, o) ==
    /\ Free(p)
    /\ LET miss == [NoReq EXCEPT !.kind = "delete", !.user = u, !.order = o]
           request == [miss EXCEPT !.flight = orders[o].flight,
                                   !.owner = orders[o].user]
       IN IF o \notin VisibleOrders(u) THEN Reply(p, Resp("NotFound"), miss, {})
          ELSE IF ~HasObjectPermission(u, o) THEN Reply(p, Resp("Forbidden"), miss, {})
          ELSE Enter(p, request, "delete")

\* Variant of the cascade that deletes every ticket of the order's flight
OwnTicketRows_WholeFlight(p) == {t \in VisibleTickets(p) : t.flight = req[p].flight}

\* The rows DELETE FROM ticket WHERE order_id = o matches at its start
OwnTicketRows(p) == {t \in VisibleTickets(p) : t.order = req[p].order}

\* The DELETE removed `rows` (locked by p until it ends)
TicketsDeleted(p, rows) ==
    /\ del' = [del EXCEPT ![p] = @ \cup rows]
    /\ locks' = [locks EXCEPT ![p] = @ \cup rows]
    /\ snap' = [snap EXCEPT ![p] = {}]
    /\ pc' = [pc EXCEPT ![p] = IF req[p].kind = "replace" THEN "probe" ELSE "delrow"]
    /\ UNCHANGED <<req, resp, listed, dbvars, ins, ordw, refvars>>

\* instance.tickets.all().delete() of replace, and the cascade of delete
DeleteTickets(p) ==
    /\ pc[p] = "delete"
    /\ IF LockedByOther(p, OwnTicketRows(p))
       THEN /\ pc' = [pc EXCEPT ![p] = "delete_wait"]
            /\ snap' = [snap EXCEPT ![p] = OwnTicketRows(p)]
            /\ UNCHANGED <<req, resp, listed, dbvars, locks, del, ins, ordw, refvars>>
       ELSE TicketsDeleted(p, OwnTicketRows(p))

DeleteResume(p) ==
    /\ pc[p] = "delete_wait"
    /\ ~LockedByOther(p, snap[p])
    /\ TicketsDeleted(p, snap[p])

\* The statement instance.save() issues for Order row o: an UPDATE, and an
\* INSERT when the UPDATE matched no row
SaveOp(o) == IF orders[o] = NoOrder THEN "insert" ELSE "update"

\* created_at as an Order write leaves it, for a row loaded with the value
\* `loaded`: an UPDATE writes the loaded value back, an INSERT stamps the
\* time of the write (auto_now_add). The order rows of this model do not
\* carry the column; the write a transaction commits tells its value.
SavedCreatedAt(op, loaded) == IF op = "insert" THEN "now" ELSE loaded

\* Ticket.objects.bulk_create(new_tickets), instance.total_price = ...,
\* instance.save(): an UPDATE of the Order row, an INSERT when it is gone.
ReplaceWrite(p) ==
    /\ pc[p] = "insert"
    /\ req[p].kind = "replace"
    /\ LET new == NewTickets(req[p].order, req[p].flight, req[p].batch,
                            TicketPrice(req[p].sent, req[p].price))
       IN IF UniqueViolation(p, new) THEN Abort(p, Resp("IntegrityError"))
          ELSE /\ UniqueBlockers(p, new) = {}
               /\ OrderRowBlockers(p, req[p].order) = {}
               /\ ins' = [ins EXCEPT ![p] = @ \cup new]
               /\ ordw' = [ordw EXCEPT ![p] =
                            [op |-> SaveOp(req[p].order),
                             id |-> req[p].order,
                             rec |-> [user |-> req[p].owner, flight |-> req[p].flight,
                                      total_price |-> TotalPrice(req[p].price, req[p].batch)]]]
               /\ pc' = [pc EXCEPT ![p] = "commit"]
               /\ UNCHANGED <<dbvars, req, resp, listed, snap, locks, del, refvars>>

\* The DELETE of the Order row itself
DeleteOrderRow(p) ==
    /\ pc[p] = "delrow"
    /\ OrderRowBlockers(p, req[p].order) = {}
    /\ ordw' = [ordw EXCEPT ![p] =
                 IF orders[req[p].order] = NoOrder THEN NoWrite
                 ELSE [op |-> "delete", id |-> req[p].order, rec |-> NoOrder]]
    /\ pc' = [pc EXCEPT ![p] = "commit"]
    /\ UNCHANGED <<dbvars, req, resp, listed, snap, locks, del, ins, refvars>>

\* ----------------------------------------------------------- lock waits

\* The transactions p is waiting for
WaitsFor(p) ==
    IF pc[p] \in {"probe_wait", "delete_wait"}
    THEN {q \in Procs \ {p} : snap[p] \cap locks[q] # {}}
    ELSE IF pc[p] = "delrow" THEN OrderRowBlockers(p, req[p].order)
    ELSE IF pc[p] = "bulk" \/ (pc[p] = "insert" /\ req[p].kind = "replace")
    THEN LET new == NewTickets(req[p].order, req[p].flight, req[p].batch,
                            TicketPrice(req[p].sent, req[p].price))
         IN IF UniqueViolation(p, new) THEN {}
            ELSE UniqueBlockers(p, new) \cup
                 (IF req[p].kind = "replace" THEN OrderRowBlockers(p, req[p].order) ELSE {})
    ELSE {}

RECURSIVE WaitClosure(_)
WaitClosure(S) ==
    LET T == S \cup UNION {WaitsFor(q) : q \in S}
    IN IF T = S THEN S ELSE WaitClosure(T)

\* Variant of the store without a deadlock detector
DeadlockAbort_Never(p) == FALSE /\ UNCHANGED vars

\* The store's deadlock detector ends one transaction of a wait cycle.
DeadlockAbort(p) ==
    /\ WaitsFor(p) # {}
    /\ p \in WaitClosure(WaitsFor(p))
    /\ Abort(p, Resp("DeadlockDetected"))

\* ----------------------------------------------------------------- reads

\* GET /orders/
ListOrders(p, u) ==
    /\ Free(p)
    /\ Reply(p, Resp("OK"), [NoReq EXCEPT !.kind = "list", !.user = u], VisibleOrders(u))

\* GET /orders/{id}/
RetrieveOrder(p, u, o) ==
    /\ Free(p)
    /\ LET request == [NoReq EXCEPT !.kind = "retrieve", !.user = u, !.order = o]
       IN IF o \notin VisibleOrders(u) THEN Reply(p, Resp("NotFound"), request, {})
          ELSE IF ~HasObjectPermission(u, o) THEN Reply(p, Resp("Forbidden"), request, {})
          ELSE Reply(p, Resp("OK"), request, {o})

\* Variant of the annotation that counts the tickets of every flight
tickets_available_AllFlights(f) ==
    AirplaneRows(f) * AirplaneSeatsInRow(f) - Cardinality(tickets)

\* FlightViewSet.queryset: tickets_available =
\* F("airplane__rows") * F("airplane__seats_in_row") - Count("tickets")
tickets_available(f) ==
    AirplaneRows(f) * AirplaneSeatsInRow(f) - Cardinality({t \in tickets : t.flight = f})

\* airplane_capacity = F("airplane__rows") * F("airplane__seats_in_row")
airplane_capacity(f) == AirplaneRows(f) * AirplaneSeatsInRow(f)

\* FlightDetailSerializer.get_taken_seats: obj.tickets.values_list("row", "seat")
get_taken_seats(f) == RowSeat({t \in tickets : t.flight = f})

\* GET /flights/{id}/, first statement: the annotated flight row is read
RetrieveFlight(f) ==
    /\ flightView.stage # "counted"
    /\ flightView' = [stage |-> "counted", flight |-> f,
                      tickets_available |-> tickets_available(f), taken_seats |-> {}]
    /\ UNCHANGED <<dbvars, pc, req, resp, listed, txvars, flightStatus, departed,
                   gatevars>>

\* GET /flights/{id}/, second statement: the serializer reads the taken
\* seats and the response is returned
SerializeFlight ==
    /\ flightView.stage = "counted"
    /\ flightView' = [flightView EXCEPT !.stage = "shown",
                                         !.taken_seats = get_taken_seats(flightView.flight)]
    /\ UNCHANGED <<dbvars, pc, req, resp, listed, txvars, flightStatus, departed,
                   gatevars>>

\* Variant of the flight update that reprices the flight's tickets and orders
SetFlightPrice_Reprices(f, v) ==
    /\ v # flightPrice[f]
    /\ flightPrice' = [flightPrice EXCEPT ![f] = v]
    /\ tickets' = {IF t.flight = f THEN [t EXCEPT !.price = v] ELSE t : t \in tickets}
    /\ orders' = [o \in OrderIds |->
                    IF orders[o] # NoOrder /\ orders[o].flight = f
                    THEN [orders[o] EXCEPT !.total_price = v * Cardinality(TicketsOf(o))]
                    ELSE orders[o]]
    /\ UNCHANGED <<nextOrderId, pc, req, resp, listed, txvars, refvars>>

\* PUT/PATCH /flights/{id}/ with a new price: FlightUpdateSerializer.update
\* saves the Flight row and nothing else.
SetFlightPrice(f, v) ==
    /\ v # flightPrice[f]
    /\ flightPrice' = [flightPrice EXCEPT ![f] = v]
    /\ UNCHANGED <<orders, nextOrderId, tickets, pc, req, resp, listed, txvars, refvars>>

\* PUT/PATCH /flights/{id}/ with a status: FlightUpdateSerializer.update
\* points the flight at the FlightStatus row of that name.
SetFlightStatus(f, name) ==
    /\ name # flightStatus[f]
    /\ flightStatus' = [flightStatus EXCEPT ![f] = name]
    /\ UNCHANGED <<dbvars, pc, req, resp, listed, txvars, departed, flightView,
                   gatevars>>

\* timezone.now() moves past the departure_time of flight f
DepartureTimePasses(f) ==
    /\ ~departed[f]
    /\ departed' = [departed EXCEPT ![f] = TRUE]
    /\ UNCHANGED <<dbvars, pc, req, resp, listed, txvars, flightStatus, flightView,
                   gatevars>>

\* A new request takes the first free worker.
Slot(p) == \A q \in Procs : (~Free(q)) \/ q = p \/ ~(q \in {"p1"} /\ p = "p2")

\* Concurrent bookings: two requests at a time, seats of the airplane only.
Next ==
    \/ \E p \in Procs, u \in Bookers, f \in Flights, b \in SeatBatches :
          Slot(p) /\ BeginCreate(p, u, f, b)
    \/ \E p \in Procs, u \in Bookers, o \in OrderIds, b \in SeatBatches :
          Slot(p) /\ BeginReplace(p, u, o, b)
    \/ \E p \in Procs, u \in Bookers, o \in OrderIds : Slot(p) /\ BeginDelete(p, u, o)
    \/ \E p \in Procs : Probe(p)
    \/ \E p \in Procs : ProbeResume(p)
    \/ \E p \in Procs : CreateOrder(p)
    \/ \E p \in Procs : BulkCreate(p)
    \/ \E p \in Procs : DeleteTickets(p)
    \/ \E p \in Procs : DeleteResume(p)
    \/ \E p \in Procs : ReplaceWrite(p)
    \/ \E p \in Procs : DeleteOrderRow(p)
    \/ \E p \in Procs : Commit(p)
    \/ \E p \in Procs : DeadlockAbort(p)

Spec == Init /\ [][Next]_vars

\* One request at a time, every user, batches with out-of-range items, reads.
SeqNext ==
    \/ \E u \in Customers, f \in Flights, b \in Batches : BeginCreate("p1", u, f, b)
    \/ \E u \in Users, o \in OrderIds, b \in Batches : BeginReplace("p1", u, o, b)
    \/ \E u \in Users, o \in OrderIds : BeginDelete("p1", u, o)
    \/ \E u \in Users : ListOrders("p1", u)
    \/ \E u \in Users, o \in OrderIds : RetrieveOrder("p1", u, o)
    \/ Probe("p1")
    \/ CreateOrder("p1")
    \/ BulkCreate("p1")
    \/ DeleteTickets("p1")
    \/ ReplaceWrite("p1")
    \/ DeleteOrderRow("p1")
    \/ Commit("p1")

SeqSpec == Init /\ [][SeqNext]_vars

\* Concurrent bookings on two flights with different airplanes: SeatC is a
\* seat of the first airplane and lies beyond the last row of the second.
FlightBatches == {<<SeatA>>, <<SeatC>>}

FlightsNext ==
    \/ \E p \in Procs, u \in Bookers, f \in AllFlights, b \in FlightBatches :
          Slot(p) /\ BeginCreate(p, u, f, b)
    \/ \E p \in Procs, u \in Bookers, o \in OrderIds, b \in FlightBatches :
          Slot(p) /\ BeginReplace(p, u, o, b)
    \/ \E p \in Procs, u \in Bookers, o \in OrderIds : Slot(p) /\ BeginDelete(p, u, o)
    \/ \E p \in Procs : Probe(p)
    \/ \E p \in Procs : ProbeResume(p)
    \/ \E p \in Procs : CreateOrder(p)
    \/ \E p \in Procs : BulkCreate(p)
    \/ \E p \in Procs : DeleteTickets(p)
    \/ \E p \in Procs : DeleteResume(p)
    \/ \E p \in Procs : ReplaceWrite(p)
    \/ \E p \in Procs : DeleteOrderRow(p)
    \/ \E p \in Procs : Commit(p)
    \/ \E p \in Procs : DeadlockAbort(p)

FlightsSpec == Init /\ [][FlightsNext]_vars

\* Requests on two workers, one request at a time: the state keeps the
\* answers of the last two requests, a rejected create and the create that
\* followed it.
Quiet == \A q \in Procs : Free(q)

RetryNext ==
    \/ \E p \in Procs, f \in Flights, b \in SeatBatches \cup {<<SeatC>>} :
          Quiet /\ BeginCreate(p, "alice", f, b)
    \/ \E p \in Procs, o \in OrderIds : Quiet /\ BeginDelete(p, "alice", o)
    \/ \E p \in Procs : Probe(p)
    \/ \E p \in Procs : CreateOrder(p)
    \/ \E p \in Procs : BulkCreate(p)
    \/ \E p \in Procs : DeleteTickets(p)
    \/ \E p \in Procs : DeleteOrderRow(p)
    \/ \E p \in Procs : Commit(p)

RetrySpec == Init /\ [][RetryNext]_vars

\* One booking request at a time on two flights, and a flight detail read
\* between the requests.
ViewBatches == {<<SeatA>>, <<SeatA, SeatB>>, <<SeatC>>}

ViewNext ==
    \/ \E f \in AllFlights, b \in ViewBatches :
          flightView.stage # "counted" /\ BeginCreate("p1", "alice", f, b)
    \/ \E o \in OrderIds, b \in ViewBatches :
          flightView.stage # "counted" /\ BeginReplace("p1", "alice", o, b)
    \/ \E o \in OrderIds : flightView.stage # "counted" /\ BeginDelete("p1", "alice", o)
    \/ \E f \in AllFlights : Quiet /\ RetrieveFlight(f)
    \/ Quiet /\ SerializeFlight
    \/ Probe("p1")
    \/ CreateOrder("p1")
    \/ BulkCreate("p1")
    \/ DeleteTickets("p1")
    \/ ReplaceWrite("p1")
    \/ DeleteOrderRow("p1")
    \/ Commit("p1")

ViewSpec == Init /\ [][ViewNext]_vars

\* One create at a time, naming a stored flight or an id without a flight,
\* while flights change status and pass their departure time.
WindowBatches == {<<SeatA>>, <<>>, <<<<0, 1>>>>}

WindowNext ==
    \/ \E f \in AllFlights \cup {MissingFlight}, b \in WindowBatches :
          BeginCreate("p1", "alice", f, b)
    \/ \E f \in AllFlights, name \in StatusNames : SetFlightStatus(f, name)
    \/ \E f \in AllFlights : DepartureTimePasses(f)
    \/ Probe("p1")
    \/ CreateOrder("p1")
    \/ BulkCreate("p1")
    \/ Commit("p1")

WindowSpec == Init /\ [][WindowNext]_vars

\* One booking request at a time whose ticket entries may carry a price,
\* while the flight's price is changed at any moment.
PriceNext ==
    \/ \E f \in Flights, b \in {<<SeatA>>, <<SeatA, SeatB>>}, c \in SentPrices :
          SubmitCreate("p1", "alice", f, b, c)
    \/ \E o \in OrderIds, b \in {<<SeatB>>, <<SeatA, SeatC>>}, c \in SentPrices :
          SubmitReplace("p1", "alice", o, b, c)
    \/ \E f \in Flights, v \in Prices : SetFlightPrice(f, v)
    \/ Probe("p1")
    \/ CreateOrder("p1")
    \/ BulkCreate("p1")
    \/ DeleteTickets("p1")
    \/ ReplaceWrite("p1")
    \/ Commit("p1")

PriceSpec == Init /\ [][PriceNext]_vars

\* Two booking requests received together: the store holds up to two orders
\* of alice booked earlier, and both requests have passed validation and
\* stand at the first statement of their transaction.
RaceStores == {<<>>, <<{SeatA}>>, <<{SeatB}>>, <<{SeatA}, {SeatB}>>}
RaceBatches == {<<SeatA>>, <<SeatB>>, <<SeatA, SeatB>>, <<SeatA, SeatC>>}

StoredOrders(held, f) ==
    [o \in OrderIds |->
        IF o <= Len(held)
        THEN [user |-> "alice", flight |-> f, total_price |-> 100 * Cardinality(held[o])]
        ELSE NoOrder]

StoredTickets(held, f) ==
    UNION {UNION {NewTickets(o, f, <<rs>>, 100) : rs \in held[o]} : o \in DOMAIN held}

RaceInit ==
    \E held \in RaceStores, f \in Flights :
        /\ Len(held) <= MaxOrders
        /\ flightPrice = [g \in AllFlights |-> 100]
        /\ RefInit
        /\ orders = StoredOrders(held, f)
        /\ tickets = StoredTickets(held, f)
        /\ nextOrderId = Len(held) + 1
        /\ req \in [Procs -> {CreateRequest("alice", f, b, 0) : b \in RaceBatches}
                              \cup {ReplaceRequest("alice", o, b, 0) :
                                      o \in 1..Len(held), b \in RaceBatches}]
        /\ Len(held) + Cardinality({p \in Procs : req[p].kind = "create"}) <= MaxOrders
        /\ pc = [p \in Procs |-> IF req[p].kind = "create" THEN "probe" ELSE "delete"]
        /\ resp = [p \in Procs |-> NoResp]
        /\ listed = [p \in Procs |-> {}]
        /\ snap = [p \in Procs |-> {}]
        /\ locks = [p \in Procs |-> {}]
        /\ del = [p \in Procs |-> {}]
        /\ ins = [p \in Procs |-> {}]
        /\ ordw = [p \in Procs |-> NoWrite]

\* The statements of request p's transaction
Step(p) ==
    \/ Probe(p)
    \/ ProbeResume(p)
    \/ CreateOrder(p)
    \/ BulkCreate(p)
    \/ DeleteTickets(p)
    \/ DeleteResume(p)
    \/ ReplaceWrite(p)
    \/ Commit(p)

RaceNext ==
    \/ \E p \in Procs : Step(p)
    \/ \E p \in Procs : DeadlockAbort(p)

RaceSpec == RaceInit /\ [][RaceNext]_vars

\* Every handler keeps running its statements, and the store's deadlock
\* detector runs whenever transactions wait in a cycle.
FairRaceSpec ==
    /\ RaceSpec
    /\ \A p \in Procs : WF_vars(Step(p))
    /\ WF_vars(\E p \in Procs : DeadlockAbort(p))

\* ------------------------------------------------------------------ claims

\* The step in which request p is answered
Answered(p) == pc[p] \notin {"idle", "done"} /\ pc'[p] = "done"

LiveOrders == {o \in OrderIds : orders[o] # NoOrder}

\* C1: in every reachable state no two live tickets have the same
\* (flight, row, seat), whatever create, replace and delete requests ran and
\* however they interleaved.
C1_NoDoubleBooking ==
    \A t1 \in tickets : \A t2 \in tickets :
        (t1.flight = t2.flight /\ t1.row = t2.row /\ t1.seat = t2.seat) => t1 = t2

\* C1 witness: two orders hold seats of one flight after a request for a
\* taken seat was turned away.
C1_Witness ==
    /\ \E t1 \in tickets : \E t2 \in tickets : t1.order # t2.order /\ t1.flight = t2.flight
    /\ \E p \in Procs : pc[p] = "done" /\ resp[p].code \in {"SeatConflict", "IntegrityError"}

\* C2: a create that loses a seat to a concurrent create is answered with the
\* seat-conflict validation error: no create passes the availability check
\* and then fails on the insert.
C2_LoserGetsSeatConflict ==
    \A p \in Procs :
        (pc[p] = "done" /\ req[p].kind = "create") => resp[p].code # "IntegrityError"

\* C3: a create whose batch names a seat held by a live ticket of the flight
\* is never committed, and a create that is turned away leaves the Order and
\* Ticket tables as they were, the free seats of its batch included.
C3_RejectedCreatePersistsNothing ==
    [][\A p \in Procs :
        (Answered(p) /\ req[p].kind = "create") =>
            IF resp'[p].code = "Created"
            THEN RequestedSeats(req[p].batch)
                    \cap RowSeat({t \in tickets : t.flight = req[p].flight}) = {}
            ELSE tickets' = tickets /\ orders' = orders]_vars

\* C3 witness: a create for a taken seat and a free seat was turned away;
\* the free seat is still free and the one stored order is not its own.
C3_Witness ==
    \E p \in Procs :
        /\ pc[p] = "done" /\ req[p].kind = "create"
        /\ resp[p].code = "SeatConflict"
        /\ resp[p].seats # {}
        /\ RequestedSeats(req[p].batch) \ resp[p].seats # {}
        /\ RequestedSeats(req[p].batch) \cap RowSeat(tickets) = resp[p].seats
        /\ Cardinality(LiveOrders) = 1
        /\ \A t \in tickets : t.order \in LiveOrders

\* C4: when a create or a replace succeeds, the stored total_price of its
\* order is the flight's price times the number of tickets the order holds.
C4_TotalPriceMatchesTickets ==
    [][\A p \in Procs :
        (Answered(p) /\ req[p].kind \in {"create", "replace"}
                     /\ resp'[p].code \in {"Created", "OK"}) =>
            orders'[req[p].order].total_price =
                flightPrice[req[p].flight]
                  * Cardinality({t \in tickets' : t.order = req[p].order})]_vars

\* C5: a replace that is turned away leaves the Order and Ticket tables as
\* they were: the order keeps its tickets and its total_price.
C5_RejectedReplaceKeepsTickets ==
    [][\A p \in Procs :
        (Answered(p) /\ req[p].kind = "replace" /\ resp'[p].code # "OK") =>
            (tickets' = tickets /\ orders' = orders)]_vars

\* C5 witness: a replace was turned away for a seat of another order and the
\* order it addressed holds a ticket.
C5_Witness ==
    \E p \in Procs :
        /\ pc[p] = "done" /\ req[p].kind = "replace"
        /\ resp[p].code = "SeatConflict"
        /\ TicketsOf(req[p].order) # {}
        /\ \E t \in tickets : /\ t.order # req[p].order
                               /\ <<t.row, t.seat>> \in RequestedSeats(req[p].batch)

\* C6: when a replace commits, the order's live tickets are exactly the
\* seats of its batch.
C6_ReplaceLeavesExactlyTheBatch ==
    [][\A p \in Procs :
        (Answered(p) /\ req[p].kind = "replace" /\ resp'[p].code = "OK") =>
            RowSeat({t \in tickets' : t.order = req[p].order}) = RequestedSeats(req[p].batch)]_vars

\* C7: a replace is turned away for a seat conflict only when a seat of its
\* batch is held by a ticket of another order.
C7_NoSelfConflict ==
    [][\A p \in Procs :
        (Answered(p) /\ req[p].kind = "replace" /\ resp'[p].code = "SeatConflict") =>
            \E t \in tickets : /\ t.order # req[p].order
                               /\ t.flight = req[p].flight
                               /\ <<t.row, t.seat>> \in RequestedSeats(req[p].batch)]_vars

\* The step in which request p is received
Asked(p) ==
    /\ Free(p)
    /\ <<pc[p], req[p], resp[p], listed[p]>>' # <<pc[p], req[p], resp[p], listed[p]>>

\* C8: the order list of a non-staff user shows only orders of that user, and
\* their retrieve, replace or delete of an existing order of someone else is
\* answered "not found" at once, the Order and Ticket tables left as they were.
C8_NonStaffSeesOwnOrdersOnly ==
    [][\A p \in Procs :
        (Asked(p) /\ ~IsStaff(req'[p].user)) =>
            /\ req'[p].kind = "list" =>
                  \A o \in listed'[p] : orders[o].user = req'[p].user
            /\ (/\ req'[p].kind \in {"retrieve", "replace", "delete"}
                /\ req'[p].order \in LiveOrders
                /\ orders[req'[p].order].user # req'[p].user) =>
                  /\ pc'[p] = "done"
                  /\ resp'[p].code = "NotFound"
                  /\ listed'[p] = {}
                  /\ tickets' = tickets /\ orders' = orders]_vars

\* C8 witness: bob asked for an order of alice that holds a ticket and was
\* answered "not found".
C8_Witness ==
    \E p \in Procs :
        /\ pc[p] = "done" /\ req[p].user = "bob"
        /\ req[p].kind \in {"retrieve", "replace", "delete"}
        /\ req[p].order \in LiveOrders
        /\ orders[req[p].order].user = "alice"
        /\ TicketsOf(req[p].order) # {}
        /\ resp[p].code = "NotFound"

\* C9: the order list of a staff user shows every stored order, and their
\* retrieve of any stored order is answered with that order.
C9_StaffSeesEveryOrder ==
    [][\A p \in Procs :
        (Asked(p) /\ IsStaff(req'[p].user)) =>
            /\ req'[p].kind = "list" => listed'[p] = LiveOrders
            /\ (req'[p].kind = "retrieve" /\ req'[p].order \in LiveOrders) =>
                  /\ resp'[p].code = "OK"
                  /\ listed'[p] = {req'[p].order}]_vars

\* C9 witness: with orders of alice and of bob stored, the administrator
\* retrieved one of them.
C9_Witness ==
    \E p \in Procs :
        /\ pc[p] = "done" /\ req[p].user = "admin" /\ req[p].kind = "retrieve"
        /\ resp[p].code = "OK"
        /\ listed[p] # {}
        /\ {orders[o].user : o \in LiveOrders} = {"alice", "bob"}

\* C10: a create or replace batch is turned away as out of range exactly when
\* one of its items has a row outside 1..rows or a seat outside
\* 1..seats_in_row of the flight's airplane, and then the request ends at
\* once with the Order and Ticket tables left as they were.
C10_SeatRangeValidation ==
    [][\A p \in Procs :
        (Asked(p) /\ req'[p].kind \in {"create", "replace"} /\ req'[p].flight \in Flights) =>
            LET batch == req'[p].batch
                outside == \E i \in DOMAIN batch :
                              \/ batch[i][1] \notin 1..AirplaneRows(req'[p].flight)
                              \/ batch[i][2] \notin 1..AirplaneSeatsInRow(req'[p].flight)
            IN /\ outside <=> (resp'[p].code = "OutOfRangeSeat")
               /\ outside => /\ pc'[p] = "done"
                             /\ tickets' = tickets /\ orders' = orders]_vars

\* C10 witness: with a ticket stored, a batch of one seat of the airplane
\* and one seat beyond its last row was turned away as out of range.
C10_Witness ==
    \E p \in Procs :
        /\ pc[p] = "done" /\ resp[p].code = "OutOfRangeSeat"
        /\ SeatA \in RequestedSeats(req[p].batch)
        /\ <<Rows + 1, 1>> \in RequestedSeats(req[p].batch)
        /\ tickets # {}

\* The batch positions (from 1) whose pair appeared at an earlier position
Repeats(batch) == {i \in DOMAIN batch : \E j \in 1..(i - 1) : batch[j] = batch[i]}

\* The batch positions (from 1) whose row or seat is outside the airplane
Outside(batch, f) ==
    {i \in DOMAIN batch : \/ batch[i][1] \notin 1..AirplaneRows(f)
                          \/ batch[i][2] \notin 1..AirplaneSeatsInRow(f)}

Min(S) == CHOOSE x \in S : \A y \in S : x <= y

\* The step in which request p gets its answer, at once or from its transaction
Ended(p) == (Asked(p) \/ Answered(p)) /\ pc'[p] = "done"

C12_ReplaceRejectsRepeat ==
    [][\A p \in Procs :
        (Ended(p) /\ req'[p].kind = "replace" /\ req'[p].flight \in Flights
                  /\ Outside(req'[p].batch, req'[p].flight) = {}
                  /\ Repeats(req'[p].batch) # {}) =>
            /\ resp'[p].code = "DuplicateSeatInRequest"
            /\ tickets' = tickets /\ orders' = orders]_vars

\* C13: an out-of-range error is about every batch position that holds an
\* out-of-range row or seat, not only about the first one.
C13_EveryInvalidEntryReported ==
    [][\A p \in Procs :
        (Asked(p) /\ resp'[p].code = "OutOfRangeSeat") =>
            {x[1] + 1 : x \in resp'[p].about} = Outside(req'[p].batch, req'[p].flight)]_vars

\* C14: a seat-conflict error of a create or a replace lists exactly the
\* requested pairs that a live ticket of the flight (of another order, for a
\* replace) holds.
C14_ConflictNamesExactPairs ==
    [][\A p \in Procs :
        (Answered(p) /\ resp'[p].code = "SeatConflict") =>
            resp'[p].seats =
                RequestedSeats(req[p].batch)
                  \cap RowSeat({t \in tickets : /\ t.flight = req[p].flight
                                                /\ t.order # req[p].order})]_vars

\* C15: a create or replace reads the flight's price when it is received, and
\* when it succeeds every ticket of its order carries that price and the
\* order's total_price is that price times the number of tickets, whatever
\* price the client wrote into its ticket entries.
C15_TicketsCarryFlightPrice ==
    [][\A p \in Procs :
        /\ (Asked(p) /\ req'[p].kind \in {"create", "replace"}
                     /\ req'[p].flight \in Flights) =>
              req'[p].price = flightPrice[req'[p].flight]
        /\ (Answered(p) /\ req[p].kind \in {"create", "replace"}
                        /\ resp'[p].code \in {"Created", "OK"}) =>
              /\ \A t \in tickets' : t.order = req[p].order => t.price = req[p].price
              /\ orders'[req[p].order].total_price =
                    req[p].price * Cardinality({t \in tickets' : t.order = req[p].order})]_vars

\* C15 witness: a request whose ticket entries carried a price succeeded
\* after the flight's price had moved on; its tickets carry the price of the
\* flight at the time of the request.
C15_Witness ==
    \E p \in Procs :
        /\ pc[p] = "done" /\ resp[p].code \in {"Created", "OK"}
        /\ req[p].sent # 0
        /\ TicketsOf(req[p].order) # {}
        /\ \A t \in TicketsOf(req[p].order) :
              t.price \in Prices /\ t.price # flightPrice[t.flight]

\* C16: a change of a flight's price leaves every stored ticket, its price
\* included, and every stored order, its total_price included, as they were.
C16_PriceChangeKeepsTickets ==
    [][(flightPrice' # flightPrice) => (tickets' = tickets /\ orders' = orders)]_vars

\* C16 witness: the flight's price was changed while an order with a ticket
\* was stored; ticket and order still carry the price of the booking.
C16_Witness ==
    \E o \in LiveOrders :
        /\ TicketsOf(o) # {}
        /\ \A t \in TicketsOf(o) : t.price # flightPrice[t.flight]
        /\ orders[o].total_price # flightPrice[orders[o].flight] * Cardinality(TicketsOf(o))
        /\ \A p \in Procs : Free(p)

\* Request p waits for a row lock that request q holds
WaitsOnRowLock(p, q) ==
    /\ p # q
    /\ pc[p] \in {"probe_wait", "delete_wait"}
    /\ snap[p] \cap locks[q] # {}

\* The seats request p touches: the seats of its batch and, for a replace,
\* the seats its order holds
Footprint(p) ==
    RequestedSeats(req[p].batch) \cup
        (IF req[p].kind = "replace"
         THEN {<<t.row, t.seat>> : t \in {u \in tickets \cup del[p] : u.order = req[p].order}}
         ELSE {})

\* C17: of two concurrent create or replace requests on one flight whose
\* requested seat sets are disjoint, neither waits for a row lock the other
\* holds. The seats a replaced order holds are counted with the seats its
\* replace requests.
C17_DisjointRequestsDoNotBlock ==
    \A p \in Procs : \A q \in Procs :
        (WaitsOnRowLock(p, q) /\ req[p].flight = req[q].flight) =>
            Footprint(p) \cap Footprint(q) # {}

\* The requests are on one flight and their batches share a seat
Overlap(r1, r2) ==
    /\ r1.flight = r2.flight
    /\ RequestedSeats(r1.batch) \cap RequestedSeats(r2.batch) # {}

\* The transaction of request p has issued a statement and has not ended
InTransaction(p) ==
    /\ pc[p] \notin {"idle", "done"}
    /\ req[p].kind = "create" => pc[p] # "probe"
    /\ req[p].kind = "replace" => pc[p] # "delete"

Succeeded(p) == pc[p] = "done" /\ resp[p].code \in {"Created", "OK"}

\* C18: of two create or replace requests whose batches share a seat and
\* whose transactions ran at the same time at most one commits, and a
\* request that does not commit leaves the Order and Ticket tables as they
\* were: no order header and no ticket of it is stored, the seats it did not
\* share included.
C18_OverlappingBatchesOneCommit ==
    /\ \A p \in Procs : \A q \in Procs \ {p} :
          []((InTransaction(p) /\ InTransaction(q) /\ Overlap(req[p], req[q])) =>
                [](~(Succeeded(p) /\ Succeeded(q))))
    /\ [][\A p \in Procs :
            (Answered(p) /\ resp'[p].code \notin {"Created", "OK"}) =>
                /\ tickets' = tickets /\ orders' = orders
                /\ req[p].kind = "create" =>
                      \A t \in tickets' : t.order # req[p].order]_vars

\* C18 witness: the batches A, B and A, C raced past their probes; one request
\* committed, the insert of the other collided with it, and the seat only
\* the loser asked for is free.
C18_Witness ==
    \E p \in Procs : \E q \in Procs \ {p} :
        /\ pc[p] = "done" /\ pc[q] = "done"
        /\ req[p].kind = "create" /\ req[q].kind = "create"
        /\ RequestedSeats(req[p].batch) \cap RequestedSeats(req[q].batch) = {SeatA}
        /\ resp[p].code = "Created"
        /\ resp[q].code = "IntegrityError"
        /\ RowSeat(tickets) \cap RequestedSeats(req[q].batch) = {SeatA}
        /\ \A t \in tickets : t.order = req[p].order
        /\ Cardinality(LiveOrders) = 1

C20_DeleteRemovesOwnTicketsOnly ==
    /\ [](ForeignKeysHold([tickets |-> tickets, orders |-> orders]))
    /\ [][\A p \in Procs :
            (Answered(p) /\ req[p].kind = "delete" /\ resp'[p].code = Success("delete")) =>
                LET o == req[p].order
                    own == {t \in tickets : t.order = o}
                IN /\ orders'[o] = NoOrder
                   /\ \A o2 \in OrderIds \ {o} : orders'[o2] = orders[o2]
                   /\ tickets' = tickets \ own
                   /\ \A t \in own :
                         ConflictingSeats({<<t.row, t.seat>>},
                             RowSeat(SeatFilter(t.flight, {<<t.row, t.seat>>}, tickets'))) = {}]_vars

\* C20 witness: an order was deleted while another order held tickets; the
\* deleted order is gone and the other order and its tickets are stored.
C20_Witness ==
    \E p \in Procs : \E o2 \in LiveOrders :
        /\ pc[p] = "done" /\ req[p].kind = "delete" /\ resp[p].code = Success("delete")
        /\ orders[req[p].order] = NoOrder
        /\ o2 # req[p].order
        /\ \E t \in tickets : t.order = o2
        /\ \A t \in tickets : t.order = o2

\* C21: in every reachable state every ticket of a stored order is a ticket
\* of that order's flight, and no step changes the flight of a stored order:
\* create and replace attach tickets of the order's flight only, and a
\* replace leaves the order's flight as it was.
C21_TicketsShareOrderFlight ==
    /\ [](\A t \in tickets :
            orders[t.order] # NoOrder => t.flight = orders[t.order].flight)
    /\ [][\A o \in OrderIds :
            (orders[o] # NoOrder /\ orders'[o] # NoOrder) =>
                orders'[o].flight = orders[o].flight]_vars

\* C21 witness: a replace committed on an order of the second flight while
\* an order of the first flight holds a ticket.
C21_Witness ==
    \E p \in Procs : \E t1 \in tickets : \E t2 \in tickets :
        /\ pc[p] = "done" /\ req[p].kind = "replace" /\ resp[p].code = "OK"
        /\ req[p].flight \notin Flights
        /\ t1.order = req[p].order /\ t1.flight = req[p].flight
        /\ t2.order # req[p].order /\ t2.flight \in Flights
        /\ orders[t2.order].flight = t2.flight

\* C22: in every reachable state every stored ticket lies inside the
\* airplane of its flight: 1 <= row <= rows and 1 <= seat <= seats_in_row.
C22_TicketsInsideAirplane ==
    \A t \in tickets :
        /\ 1 <= t.row /\ t.row <= AirplaneRows(t.flight)
        /\ 1 <= t.seat /\ t.seat <= AirplaneSeatsInRow(t.flight)

\* C22 witness: the seat of the last row of the longer airplane is booked
\* on the first flight, and a request for the same seat on the flight with
\* the shorter airplane was turned away while that flight has a ticket.
C22_Witness ==
    \E p \in Procs : \E t1 \in tickets : \E t2 \in tickets :
        /\ pc[p] = "done" /\ resp[p].code = "OutOfRangeSeat"
        /\ req[p].flight \notin Flights /\ req[p].batch = <<SeatC>>
        /\ t1.flight \in Flights /\ <<t1.row, t1.seat>> = SeatC
        /\ t2.flight = req[p].flight

\* C23: with one request at a time, a create that reached its transaction
\* is answered by the seats of its batch alone: when none of them is held
\* it succeeds, whatever was rejected before it; when one is held it is
\* rejected with exactly the held seats and the Order table, the Ticket
\* table and the Order id sequence stay as they were, so the same batch is
\* rejected again and a batch of free seats succeeds.
C23_RejectedCreateLeavesNoHold ==
    [][\A p \in Procs :
        (Answered(p) /\ req[p].kind = "create") =>
            LET taken == RowSeat({t \in tickets : t.flight = req[p].flight})
                held == RequestedSeats(req[p].batch) \cap taken
            IN IF held = {} THEN resp'[p].code = "Created"
               ELSE /\ resp'[p].code = "SeatConflict"
                    /\ resp'[p].seats = held
                    /\ tickets' = tickets /\ orders' = orders
                    /\ nextOrderId' = nextOrderId]_vars

\* C23 witness: a create for seats A and C was rejected for A alone, and the
\* create that followed it, for C, succeeded: C is a ticket of its order.
C23_Witness ==
    \E p \in Procs : \E q \in Procs \ {p} :
        /\ pc[p] = "done" /\ req[p].kind = "create" /\ req[p].batch = <<SeatA, SeatC>>
        /\ resp[p].code = "SeatConflict" /\ resp[p].seats = {SeatA}
        /\ pc[q] = "done" /\ req[q].kind = "create" /\ req[q].batch = <<SeatC>>
        /\ resp[q].code = "Created"
        /\ \E t \in tickets : t.order = req[q].order /\ <<t.row, t.seat>> = SeatC

\* C24: a create or replace whose batch is the empty list is rejected at
\* once, and in every reachable state every stored order holds at least one
\* ticket.
C24_EmptyBatchRejected ==
    /\ [][\A p \in Procs :
            (/\ Asked(p) /\ req'[p].kind \in {"create", "replace"}
             /\ req'[p].flight \in Flights /\ req'[p].batch = <<>>) =>
                pc'[p] = "done" /\ resp'[p].code \notin {"Created", "OK"}]_vars
    /\ [](\A o \in LiveOrders : TicketsOf(o) # {})

C26_CreateOnlyOnAvailableFlight ==
    [][\A p \in Procs :
        (/\ Asked(p) /\ req'[p].kind = "create"
         /\ \/ req'[p].flight \notin AllFlights
            \/ flightStatus[req'[p].flight] \notin {"SCHEDULED", "BOARDING", "DELAYED"}
            \/ departed[req'[p].flight]) =>
            /\ pc'[p] = "done"
            /\ resp'[p].code \in {"InvalidFlight", "NotFound"}
            /\ tickets' = tickets /\ orders' = orders]_vars

RECURSIVE SumOfPrices(_)
SumOfPrices(S) ==
    IF S = {} THEN 0
    ELSE LET t == CHOOSE x \in S : TRUE IN t.price + SumOfPrices(S \ {t})

\* C27: once two replaces of the same order that ran concurrently have both
\* ended and one of them committed, the order's tickets are exactly the
\* batch of one of the two requests and its total_price is the sum of the
\* prices of the tickets it holds.
C27_ConcurrentReplacesConsistent ==
    \A p \in Procs : \A q \in Procs \ {p} :
        (/\ pc[p] = "done" /\ pc[q] = "done"
         /\ req[p].kind = "replace" /\ req[q].kind = "replace"
         /\ req[p].order = req[q].order
         /\ Succeeded(p) \/ Succeeded(q)) =>
            LET o == req[p].order
            IN /\ orders[o] # NoOrder
               /\ \/ RowSeat(TicketsOf(o)) = RequestedSeats(req[p].batch)
                  \/ RowSeat(TicketsOf(o)) = RequestedSeats(req[q].batch)
               /\ orders[o].total_price = SumOfPrices(TicketsOf(o))

\* C28: a step changes the Order row or the tickets of an order only when
\* it ends a create, replace or delete request on that very order: whatever
\* a request does, and whether it commits or is rejected, the tickets and
\* the total_price of every other order stay as they were.
C28_OtherOrdersUntouched ==
    [][\A o \in OrderIds :
        (\/ orders'[o] # orders[o]
         \/ {t \in tickets' : t.order = o} # {t \in tickets : t.order = o}) =>
            \E p \in Procs :
                /\ Answered(p) /\ resp'[p].code \in {"Created", "OK", "Deleted"}
                /\ req[p].order = o]_vars

\* C28 witness: two orders hold tickets; a replace of one committed and a
\* create asking for a held seat was rejected.
C28_Witness ==
    \E p \in Procs : \E q \in Procs \ {p} : \E o \in LiveOrders :
        /\ pc[p] = "done" /\ req[p].kind = "replace" /\ resp[p].code = "OK"
        /\ pc[q] = "done" /\ req[q].kind = "create" /\ resp[q].code = "SeatConflict"
        /\ o # req[p].order
        /\ TicketsOf(o) # {} /\ TicketsOf(req[p].order) # {}
        /\ resp[q].seats \subseteq RowSeat(tickets)

\* ------------------------------------------------------------ gates

\* Gate.validate_gate_type: TRUE when it raises nothing
validate_gate_type(international, gate_type) ==
    /\ ~(international /\ gate_type \notin {"INTERNATIONAL", "MIXED"})
    /\ ~(~international /\ gate_type \notin {"DOMESTIC", "MIXED"})

\* Serializer.to_internal_value of GateSerializer: the fields whose
\* validation fails. number and terminal are required unless the update is
\* partial; gate_type has a model default and is never required.
GateFieldErrors(data, partial) ==
    {f \in {"number", "terminal"} : data[f] = Absent /\ ~partial}
        \cup (IF data.terminal \notin Terminals \cup {Absent} THEN {"terminal"} ELSE {})
        \cup (IF data.gate_type \notin GATE_TYPES \cup {Absent} THEN {"gate_type"} ELSE {})

\* What an update leaves in a field: the value given, else the instance's
Merged(instance, data) ==
    [f \in DOMAIN data |-> IF data[f] = Absent THEN instance[f] ELSE data[f]]

\* UniqueTogetherValidator on (number, terminal): another gate has the pair
GateExists(id, number, terminal) ==
    \E g \in GateIds \ {id} :
        gates[g] # NoGate /\ gates[g].number = number /\ gates[g].terminal = terminal

\* GateSerializer.run_validation for gate id (0 on create): field
\* validation, then the unique-together validator (which fills unprovided
\* fields from the instance in its own copy), then validate(attrs), which
\* indexes attrs["terminal"] and attrs["gate_type"].
GateRunValidation(id, data, partial) ==
    LET given == IF id \in GateIds THEN Merged(gates[id], data) ELSE data
    IN IF GateFieldErrors(data, partial) # {}
       THEN GateResp("ValidationError", id, GateFieldErrors(data, partial))
       ELSE IF GateExists(id, given.number, given.terminal)
       THEN GateResp("ValidationError", id, {"non_field_errors"})
       ELSE IF data.terminal = Absent \/ data.gate_type = Absent
       THEN GateResp("UnhandledException", id, {})
       ELSE IF ~validate_gate_type(is_international[data.terminal], data.gate_type)
       THEN GateResp("ValidationError", id, {"gate_type"})
       ELSE GateResp("valid", id, {})

\* POST /gates/
CreateGate(data) ==
    LET v == GateRunValidation(0, data, FALSE)
        g == CHOOSE g \in GateIds :
                 gates[g] = NoGate /\ \A h \in GateIds : h < g => gates[h] # NoGate
    IN /\ \E h \in GateIds : gates[h] = NoGate
       /\ IF v.code = "valid"
          THEN /\ gates' = [gates EXCEPT ![g] = data]
               /\ gateResp' = GateResp("Created", g, {})
          ELSE /\ gates' = gates
               /\ gateResp' = v
       /\ UNCHANGED <<dbvars, pc, req, resp, listed, txvars, flightStatus, departed,
                      flightView, is_international>>

\* PUT /gates/{id}/ (partial = FALSE) and PATCH /gates/{id}/ (partial = TRUE)
UpdateGate(id, data, partial) ==
    LET v == GateRunValidation(id, data, partial)
    IN /\ IF gates[id] = NoGate
          THEN /\ gates' = gates
               /\ gateResp' = GateResp("NotFound", id, {})
          ELSE IF v.code = "valid"
          THEN /\ gates' = [gates EXCEPT ![id] = Merged(gates[id], data)]
               /\ gateResp' = GateResp("OK", id, {})
          ELSE /\ gates' = gates
               /\ gateResp' = v
       /\ UNCHANGED <<dbvars, pc, req, resp, listed, txvars, flightStatus, departed,
                      flightView, is_international>>

\* PUT/PATCH /terminals/{id}/ with is_international: TerminalSerializer
\* looks at no gate
UpdateTerminal(t, international) ==
    /\ international # is_international[t]
    /\ is_international' = [is_international EXCEPT ![t] = international]
    /\ UNCHANGED <<dbvars, pc, req, resp, listed, txvars, flightStatus, departed,
                   flightView, gates, gateResp>>

\* Gate and terminal requests, one at a time
GateNext ==
    \/ \E data \in GateData : CreateGate(data)
    \/ \E id \in GateIds : \E data \in GateData : UpdateGate(id, data, FALSE)
    \/ \E id \in GateIds : \E data \in GateData : UpdateGate(id, data, TRUE)
    \/ \E t \in Terminals : \E b \in BOOLEAN : UpdateTerminal(t, b)

GateSpec == Init /\ [][GateNext]_vars

\* The gate a request would store is of a type its terminal does not take:
\* every field given is well-formed, no other gate has the number in the
\* terminal, and the row after the write would be incompatible
WouldBreak(id, data, partial) ==
    LET row == IF id \in GateIds THEN Merged(gates[id], data) ELSE data
    IN /\ GateFieldErrors(data, partial) = {}
       /\ row.terminal \in Terminals
       /\ row.gate_type \in GATE_TYPES
       /\ ~GateExists(id, row.number, row.terminal)
       /\ ~validate_gate_type(is_international[row.terminal], row.gate_type)

\* C30, first half: the gate a create or update answers for is stored with a
\* type its terminal takes, and no other answer changes a gate.
C30_WrittenGateCompatible ==
    [][/\ gates' # gates => gateResp'.code \in {"Created", "OK"}
       /\ (gateResp'.code \in {"Created", "OK"}
               /\ <<gates, gateResp>>' # <<gates, gateResp>>) =>
             LET row == gates'[gateResp'.id]
             IN validate_gate_type(is_international'[row.terminal], row.gate_type)]_vars

\* C30: the gate a create or update answers for is stored with a type its
\* terminal takes, and a request that would store a gate of a type its
\* terminal does not take is answered with a validation error on gate_type.
C30_GateTypeCompatibleOrRejected ==
    [][/\ gates' # gates => gateResp'.code \in {"Created", "OK"}
       /\ (gateResp'.code \in {"Created", "OK"}
               /\ <<gates, gateResp>>' # <<gates, gateResp>>) =>
             LET row == gates'[gateResp'.id]
             IN validate_gate_type(is_international'[row.terminal], row.gate_type)
       /\ \A data \in GateData :
            /\ (CreateGate(data) /\ WouldBreak(0, data, FALSE)) =>
                   (gateResp'.code = "ValidationError" /\ "gate_type" \in gateResp'.fields)
            /\ \A id \in GateIds : \A partial \in BOOLEAN :
                 (UpdateGate(id, data, partial) /\ gates[id] # NoGate
                      /\ WouldBreak(id, data, partial)) =>
                   (gateResp'.code = "ValidationError" /\ "gate_type" \in gateResp'.fields)]_vars

\* C29: when a replace ends, the order it acted on, if stored, has the user
\* and the flight the request loaded it with, and the write a committing
\* replace makes leaves created_at as loaded; a rejected replace leaves
\* the Order row as it was.
C29_ReplaceKeepsUserFlightCreatedAt ==
    [][\A p \in Procs :
        (Answered(p) /\ req[p].kind = "replace") =>
            LET o == req[p].order
            IN /\ orders'[o] # NoOrder =>
                     /\ orders'[o].user = req[p].owner
                     /\ orders'[o].flight = req[p].flight
               /\ resp'[p].code = "OK" =>
                     SavedCreatedAt(ordw[p].op, "creation") = "creation"
               /\ resp'[p].code # "OK" => orders'[o] = orders[o]]_vars

====
